---- MODULE Spec2Model ----
(***************************************************************************)
(* 66 Pigs (havekost/66pigs): the rules engine of utils/gameLogic and the  *)
(* phase orchestrator of the game screen, over the shared store (the       *)
(* lobbies.game_state record and one lobby_players record per player).     *)
(*                                                                         *)
(* A card is its number: its pig value is calculatePigValue(number), fixed *)
(* at creation (createDeck).  Row indexes are 0-based as in the source; a  *)
(* row i of a table is rows[i + 1].                                        *)
(***************************************************************************)
EXTENDS Integers, Sequences, FiniteSets, TLC

(***************************************************************************)
(* Bounds of the model.  The source plays 2..10 players, 10 cards a hand   *)
(* and 104 cards; the model scales the game down and keeps the table       *)
(* shape (4 rows, a row is captured by its 6th card).                      *)
(***************************************************************************)
NumPlayers == 2
\* cards dealt to each player (10 in dealCards)
HandSize == 2
\* cards of the deck that the first deal leaves undealt (104 - 4 - 10n in the source)
SpareCards == 4
\* score that ends the game (66 in processCardPlacements and isGameOver)
LoseScore == 3
\* the model stops dealing new rounds after this round number
MaxRound == 2
\* the model stops starting reveal batches after this many
MaxRuns == 2

NumRows == 4
RowCapacity == 5
NoCard == 0

DeckSize == NumRows + HandSize * NumPlayers + SpareCards
Players == 1..NumPlayers
\* the host is the first player of the lobby (players are ordered by joined_at)
Host == 1

Last(s) == s[Len(s)]
Range(s) == {s[i] : i \in DOMAIN s}

RECURSIVE SumSeq(_)
SumSeq(s) == IF s = <<>> THEN 0 ELSE s[1] + SumSeq(Tail(s))

(***************************************************************************)
(* utils/gameLogic                                                          *)
(***************************************************************************)
SPECIAL_DOUBLES == {11, 22, 33, 44, 55, 66, 77, 88, 99}

\* mutant: the test of the last digit comes before the test of the doubles
calculatePigValue_LastDigitFirst(cardNumber) ==
    IF cardNumber % 10 = 5 THEN 2
    ELSE IF cardNumber % 10 = 0 THEN 3
    ELSE IF cardNumber \in {11, 22, 33, 44, 55, 66, 77, 88, 99} THEN -11
    ELSE 1

\* mutant: a special double counted twice
calculatePigValue_DoubleCounted(cardNumber) ==
    IF cardNumber \in SPECIAL_DOUBLES THEN -22
    ELSE IF cardNumber % 10 = 5 THEN 2
    ELSE IF cardNumber % 10 = 0 THEN 3
    ELSE 1

calculatePigValue(cardNumber) ==
    IF cardNumber \in SPECIAL_DOUBLES THEN -11
    ELSE IF cardNumber % 10 = 5 THEN 2
    ELSE IF cardNumber % 10 = 0 THEN 3
    ELSE 1

\* mutant: the loop runs from 0 to size - 1
createDeckOf_FromZero(size) ==
    [i \in 1..size |-> [number |-> i - 1, pigs |-> calculatePigValue(i - 1)]]

\* for (let i = 1; i <= size; i++) deck.push({number: i, pigs: calculatePigValue(i)})
createDeckOf(size) ==
    [i \in 1..size |-> [number |-> i, pigs |-> calculatePigValue(i)]]

\* the deck of the model, by the numbers of its cards (size 104 in the source)
createDeck == [i \in 1..DeckSize |-> createDeckOf(DeckSize)[i].number]

\* mutant: shuffled[i] = shuffled[j] without the exchange
Swap_Overwrite(s, i, j) == [s EXCEPT ![i + 1] = s[j + 1]]

\* [shuffled[i], shuffled[j]] = [shuffled[j], shuffled[i]], positions 0-based
Swap(s, i, j) == [s EXCEPT ![i + 1] = s[j + 1], ![j + 1] = s[i + 1]]

\* Math.floor(Math.random() * (i + 1)): the draw made at step i, a number of 0..i
DrawAt(draws, i) == IF i \in DOMAIN draws THEN draws[i] % (i + 1) ELSE 0

RECURSIVE ShuffleFrom(_, _, _)
ShuffleFrom(shuffled, i, draws) ==
    IF i > 0 THEN ShuffleFrom(Swap(shuffled, i, DrawAt(draws, i)), i - 1, draws)
    ELSE shuffled

\* Fisher-Yates over a copy of the deck; draws are the outcomes of Math.random
shuffleDeck(deck, draws) == ShuffleFrom(deck, Len(deck) - 1, draws)

\* deck[k] of the source (0-based): undefined (NoCard) past the end of the deck
DeckAt(deck, k) == IF k + 1 \in DOMAIN deck THEN deck[k + 1] ELSE NoCard

\* Array.prototype.sort with (a, b) => a.number - b.number: stable, and
\* undefined elements go last without the comparator being called on them
RECURSIVE InsertCard(_, _)
InsertCard(sorted, c) ==
    IF sorted = <<>> THEN <<c>>
    ELSE IF c # NoCard /\ (sorted[1] = NoCard \/ c < sorted[1])
         THEN <<c>> \o sorted
         ELSE <<sorted[1]>> \o InsertCard(Tail(sorted), c)

RECURSIVE SortCards(_)
SortCards(s) ==
    IF s = <<>> THEN <<>>
    ELSE InsertCard(SortCards(SubSeq(s, 1, Len(s) - 1)), Last(s))

\* mutant: the hands are left in the order of the deck
dealCards_Unsorted(deck, numPlayers) ==
    [hands |-> [p \in 1..numPlayers |->
                   [c \in 1..HandSize |-> DeckAt(deck, (p - 1) * HandSize + (c - 1))]],
     remainingDeck |-> SubSeq(deck, HandSize * numPlayers + 1, Len(deck))]

dealCards(deck, numPlayers) ==
    [hands |-> [p \in 1..numPlayers |->
                   SortCards([c \in 1..HandSize |->
                                 DeckAt(deck, (p - 1) * HandSize + (c - 1))])],
     remainingDeck |-> SubSeq(deck, HandSize * numPlayers + 1, Len(deck))]

\* rows sorted by their starting card
RECURSIVE InsertRow(_, _)
InsertRow(sorted, r) ==
    IF sorted = <<>> THEN <<r>>
    ELSE IF r[1] < sorted[1][1] THEN <<r>> \o sorted
         ELSE <<sorted[1]>> \o InsertRow(Tail(sorted), r)

RECURSIVE SortRows(_)
SortRows(s) ==
    IF s = <<>> THEN <<>>
    ELSE InsertRow(SortRows(SubSeq(s, 1, Len(s) - 1)), Last(s))

\* mutant: the rows are left in the order of the deck
initializeTableRows_Unsorted(deck) ==
    [rows |-> [i \in 1..NumRows |-> <<deck[i]>>],
     remainingDeck |-> SubSeq(deck, NumRows + 1, Len(deck))]

initializeTableRows(deck) ==
    [rows |-> SortRows([i \in 1..NumRows |-> <<deck[i]>>]),
     remainingDeck |-> SubSeq(deck, NumRows + 1, Len(deck))]

\* mutant: on equal differences the later row wins
RECURSIVE FindRowFrom_LastOnTies(_, _, _, _, _)
FindRowFrom_LastOnTies(card, rows, i, bestRowIndex, smallestDifference) ==
    IF i >= Len(rows) THEN bestRowIndex
    ELSE LET lastCard == Last(rows[i + 1])
             difference == card - lastCard
         IN IF card > lastCard /\ (smallestDifference < 0 \/ difference <= smallestDifference)
            THEN FindRowFrom_LastOnTies(card, rows, i + 1, i, difference)
            ELSE FindRowFrom_LastOnTies(card, rows, i + 1, bestRowIndex, smallestDifference)

\* the loop of findRowForCard from row i on, with the best row found so far
RECURSIVE FindRowFrom(_, _, _, _, _)
FindRowFrom(card, rows, i, bestRowIndex, smallestDifference) ==
    IF i >= Len(rows) THEN bestRowIndex
    ELSE LET lastCard == Last(rows[i + 1])
             difference == card - lastCard
         IN IF card > lastCard /\ (smallestDifference < 0 \/ difference < smallestDifference)
            THEN FindRowFrom(card, rows, i + 1, i, difference)
            ELSE FindRowFrom(card, rows, i + 1, bestRowIndex, smallestDifference)

\* -1 when the card is lower than the last card of every row;
\* smallestDifference -1 stands for the initial Infinity
\* mutant: the loop over the rows starts at the second row
findRowForCard_FromSecondRow(card, rows) == FindRowFrom(card, rows, 1, -1, -1)

findRowForCard(card, rows) == FindRowFrom(card, rows, 0, -1, -1)

calculateRowPigs(row) == SumSeq([i \in DOMAIN row |-> calculatePigValue(row[i])])

(***************************************************************************)
(* placeCardInRow and takeRow on the objects they read and write.  The     *)
(* card arrays of a call are numbered: those of the rows of the argument   *)
(* are 1..Len(rows), the ones the call creates come after them.  heap      *)
(* holds the cards of each array, newRows the array of each row of the     *)
(* table returned.                                                         *)
(***************************************************************************)
\* mutant: [...rows], the rows of the copy are the rows of the argument
CopyRows_Shallow(rows) ==
    [heap |-> rows, newRows |-> [r \in DOMAIN rows |-> r]]

\* rows.map((row) => ({ cards: [...row.cards] }))
CopyRows(rows) ==
    [heap |-> rows \o rows, newRows |-> [r \in DOMAIN rows |-> Len(rows) + r]]

\* the tables a call leaves: the one it returns and the one it was given
TablesOf(rows, heap, newRows) ==
    [newRows |-> [r \in DOMAIN newRows |-> heap[newRows[r]]],
     rowsAfter |-> [r \in DOMAIN rows |-> heap[r]]]

placeCardInRowObjects(card, rowIndex, rows) ==
    LET copy == CopyRows(rows)
        targetRow == copy.newRows[rowIndex + 1]
    IN IF Len(copy.heap[targetRow]) >= RowCapacity
       THEN \* newRows[rowIndex] = { cards: [card] }
            TablesOf(rows, Append(copy.heap, <<card>>),
                     [copy.newRows EXCEPT ![rowIndex + 1] = Len(copy.heap) + 1])
       ELSE \* targetRow.cards.push(card)
            TablesOf(rows, [copy.heap EXCEPT ![targetRow] = Append(@, card)],
                     copy.newRows)

takeRowObjects(card, rowIndex, rows) ==
    LET copy == CopyRows(rows)
    IN \* newRows[rowIndex] = { cards: [card] }
       TablesOf(rows, Append(copy.heap, <<card>>),
                [copy.newRows EXCEPT ![rowIndex + 1] = Len(copy.heap) + 1])

\* mutant: the row is captured one card too late
placeCardInRow_OffByOne(card, rowIndex, rows) ==
    LET targetRow == rows[rowIndex + 1]
    IN IF Len(targetRow) > RowCapacity
       THEN [newRows |-> [rows EXCEPT ![rowIndex + 1] = <<card>>],
             pigsTaken |-> calculateRowPigs(targetRow),
             cardsTaken |-> targetRow]
       ELSE [newRows |-> [rows EXCEPT ![rowIndex + 1] = Append(targetRow, card)],
             pigsTaken |-> 0,
             cardsTaken |-> <<>>]

\* mutant: the captured cards are counted without their pigs
placeCardInRow_PigsDropped(card, rowIndex, rows) ==
    LET targetRow == rows[rowIndex + 1]
    IN IF Len(targetRow) >= RowCapacity
       THEN [newRows |-> [rows EXCEPT ![rowIndex + 1] = <<card>>],
             pigsTaken |-> 0,
             cardsTaken |-> targetRow]
       ELSE [newRows |-> [rows EXCEPT ![rowIndex + 1] = Append(targetRow, card)],
             pigsTaken |-> 0,
             cardsTaken |-> <<>>]

\* mutant: the card is put at the front of the row
placeCardInRow_Prepended(card, rowIndex, rows) ==
    LET targetRow == rows[rowIndex + 1]
    IN IF Len(targetRow) >= RowCapacity
       THEN [newRows |-> [rows EXCEPT ![rowIndex + 1] = <<card>>],
             pigsTaken |-> calculateRowPigs(targetRow),
             cardsTaken |-> targetRow]
       ELSE [newRows |-> [rows EXCEPT ![rowIndex + 1] = <<card>> \o targetRow],
             pigsTaken |-> 0,
             cardsTaken |-> <<>>]

placeCardInRow(card, rowIndex, rows) ==
    LET targetRow == rows[rowIndex + 1]
    IN IF Len(targetRow) >= RowCapacity
       THEN [newRows |-> [rows EXCEPT ![rowIndex + 1] = <<card>>],
             pigsTaken |-> calculateRowPigs(targetRow),
             cardsTaken |-> targetRow]
       ELSE [newRows |-> [rows EXCEPT ![rowIndex + 1] = Append(targetRow, card)],
             pigsTaken |-> 0,
             cardsTaken |-> <<>>]

\* mutant: the captured row is removed and the card opens a row at the end
takeRow_RowNotReplaced(card, rowIndex, rows) ==
    [newRows |-> SubSeq(rows, 1, rowIndex) \o SubSeq(rows, rowIndex + 2, Len(rows)),
     pigsTaken |-> calculateRowPigs(rows[rowIndex + 1]),
     cardsTaken |-> rows[rowIndex + 1]]

\* mutant: only the last card of the row is captured
takeRow_LastCardOnly(card, rowIndex, rows) ==
    [newRows |-> [rows EXCEPT ![rowIndex + 1] = <<card>>],
     pigsTaken |-> calculatePigValue(Last(rows[rowIndex + 1])),
     cardsTaken |-> <<Last(rows[rowIndex + 1])>>]

takeRow(card, rowIndex, rows) ==
    [newRows |-> [rows EXCEPT ![rowIndex + 1] = <<card>>],
     pigsTaken |-> calculateRowPigs(rows[rowIndex + 1]),
     cardsTaken |-> rows[rowIndex + 1]]

\* [...revealed].sort((a, b) => a.card.number - b.card.number), stable
RECURSIVE InsertRevealed(_, _)
InsertRevealed(sorted, r) ==
    IF sorted = <<>> THEN <<r>>
    ELSE IF r.card < sorted[1].card THEN <<r>> \o sorted
         ELSE <<sorted[1]>> \o InsertRevealed(Tail(sorted), r)

RECURSIVE sortRevealedCards(_)
sortRevealedCards(revealed) ==
    IF revealed = <<>> THEN <<>>
    ELSE InsertRevealed(sortRevealedCards(SubSeq(revealed, 1, Len(revealed) - 1)),
                        Last(revealed))


\* the loop of findSmallestRow from row i on
RECURSIVE FindSmallestFrom(_, _, _, _)
FindSmallestFrom(rows, i, smallestIndex, smallestPigs) ==
    IF i >= Len(rows) THEN smallestIndex
    ELSE LET pigs == calculateRowPigs(rows[i + 1])
         IN IF pigs < smallestPigs
            THEN FindSmallestFrom(rows, i + 1, i, pigs)
            ELSE FindSmallestFrom(rows, i + 1, smallestIndex, smallestPigs)

\* mutant: the last row of the fewest pigs
findSmallestRow_LastMinimum(rows) ==
    CHOOSE i \in 0..(Len(rows) - 1) :
        /\ \A j \in 0..(Len(rows) - 1) :
              calculateRowPigs(rows[i + 1]) <= calculateRowPigs(rows[j + 1])
        /\ \A j \in (i + 1)..(Len(rows) - 1) :
              calculateRowPigs(rows[i + 1]) < calculateRowPigs(rows[j + 1])

findSmallestRow(rows) == FindSmallestFrom(rows, 1, 0, calculateRowPigs(rows[1]))

\* players.reduce((winner, player) => player.score < winner.score ? player : winner)
\* from player i on; a player is its position in the list
RECURSIVE GetWinnerFrom(_, _, _)
GetWinnerFrom(ps, i, winner) ==
    IF i > Len(ps) THEN winner
    ELSE GetWinnerFrom(ps, i + 1, IF ps[i].score < ps[winner].score THEN i ELSE winner)

getWinner(ps) == GetWinnerFrom(ps, 2, 1)

isRoundComplete(ps) == \A p \in DOMAIN ps : Len(ps[p].hand) = 0

\* mutant: the game ends only past the losing score
isGameOver_Strict(ps) == \E p \in DOMAIN ps : ps[p].score > LoseScore

\* players.some((player) => player.score >= 66)
isGameOver(ps) == \E p \in DOMAIN ps : ps[p].score >= LoseScore

\* startNewRound: a fresh deck without the card numbers on the table, shuffled and dealt
RECURSIVE FilterSeq(_, _)
FilterSeq(s, keep) ==
    IF s = <<>> THEN <<>>
    ELSE IF s[1] \in keep THEN <<s[1]>> \o FilterSeq(Tail(s), keep)
         ELSE FilterSeq(Tail(s), keep)

RECURSIVE FlattenRows(_)
FlattenRows(rows) == IF rows = <<>> THEN <<>> ELSE rows[1] \o FlattenRows(Tail(rows))

\* mutant: the new deck keeps the card numbers on the table
startNewRound_FullDeck(numPlayers, existingRows, draws) ==
    [hands |-> dealCards(shuffleDeck(createDeck, draws), numPlayers).hands,
     cardsOnTable |-> FlattenRows(existingRows)]

startNewRound(numPlayers, existingRows, draws) ==
    LET cardsOnTable == FlattenRows(existingRows)
        deck == FilterSeq(createDeck, Range(createDeck) \ Range(cardsOnTable))
    IN [hands |-> dealCards(shuffleDeck(deck, draws), numPlayers).hands,
        cardsOnTable |-> cardsOnTable]

initializeGame(numPlayers, draws) ==
    LET deck == shuffleDeck(createDeck, draws)
        t == initializeTableRows(deck)
    IN [gameState |-> [phase |-> "selecting",
                       round |-> 1,
                       tableRows |-> t.rows,
                       revealedCards |-> <<>>,
                       pendingRowSelection |-> [playerId |-> 0, card |-> NoCard]],
        hands |-> dealCards(t.remainingDeck, numPlayers).hands]

(***************************************************************************)
(* The outcomes of Math.random the model draws shuffles from: draws[i] is  *)
(* the number drawn at step i of shuffleDeck (reduced to 0..i by DrawAt).  *)
(***************************************************************************)
RandomDraws ==
    { <<1, 0, 3, 0, 3, 1, 4, 5, 6, 7, 8>> }

(***************************************************************************)
(* State.  The shared store, the host's GameScreen (its React state and    *)
(* the run of processRevealAndPlace in flight), and what every other       *)
(* client's GameScreen last fetched of the phase and of its own hand.      *)
(***************************************************************************)
VARIABLES
    game_state,           \* lobbies.game_state (phase "none": null)
    lobby_players,        \* lobby_players rows in joined_at order: score, hand, selected_card
    gameState,            \* host: useState gameState, the last lobby fetched
    players,              \* host: useState players, the last players fetched (<<>> before)
    isProcessing,         \* host: useState isProcessing
    pendingCard,          \* host: useState pendingCard
    showRowSelection,     \* host: useState showRowSelection
    rowSelectionResolver, \* host: rowSelectionResolver.current is set
    selectedCard,         \* every client: useState selectedCard
    view,                 \* other clients: phase and own hand last fetched
    run,                  \* host: the async run in flight and its locals
    applied,              \* history: the cards the run in flight applied, in order
    runs,                 \* history: the reveal batches started so far
    doublesTaken,         \* history: per player, the special doubles its cards captured
    probe,                \* the last call of a rules function made on its own: arguments and result
    returning             \* host: handleReturnToLobby in flight, the player it writes next (0: not running)

vars == <<game_state, lobby_players, gameState, players, isProcessing, pendingCard,
          showRowSelection, rowSelectionResolver, selectedCard, view, run, applied, runs,
          doublesTaken, probe, returning>>

Others == Players \ {Host}

\* no rules function called on its own yet
NoProbe == [op |-> "none"]

NoPending == [playerId |-> 0, card |-> NoCard]

NoGame == [phase |-> "none", round |-> 0, tableRows |-> <<>>,
           revealedCards |-> <<>>, pendingRowSelection |-> NoPending]

NoScoreUpdates == [p \in Players |-> 0]

Idle == [pc |-> "idle", gameState |-> NoGame, players |-> <<>>, sorted |-> <<>>,
         currentRows |-> <<>>, playerScoreUpdates |-> NoScoreUpdates,
         needing |-> <<>>, i |-> 0, hands |-> <<>>, newGameState |-> NoGame]

\* the lobby before the game: handleJoinLobby inserted score 0, hand [], no selection
Init ==
    /\ game_state = NoGame
    /\ lobby_players = [p \in Players |-> [score |-> 0, hand |-> <<>>, selected_card |-> NoCard]]
    /\ gameState = NoGame
    /\ players = <<>>
    /\ isProcessing = FALSE
    /\ pendingCard = NoCard
    /\ showRowSelection = FALSE
    /\ rowSelectionResolver = FALSE
    /\ selectedCard = [p \in Players |-> NoCard]
    /\ view = [p \in Others |-> [phase |-> "none", hand |-> <<>>]]
    /\ run = Idle
    /\ applied = <<>>
    /\ runs = 0
    /\ doublesTaken = [p \in Players |-> 0]
    /\ probe = NoProbe
    /\ returning = 0

(***************************************************************************)
(* handleStartGame (lobby screen, host): one write per player, then the    *)
(* lobby write.                                                            *)
(***************************************************************************)
HandleStartGame ==
    /\ run.pc = "idle"
    /\ game_state.phase = "none"
    /\ NumPlayers >= 2 /\ NumPlayers <= 10
    /\ \E draws \in RandomDraws :
          LET g == initializeGame(NumPlayers, draws)
          IN run' = [Idle EXCEPT !.pc = "startPlayers", !.i = 1,
                                 !.hands = g.hands, !.newGameState = g.gameState]
    /\ UNCHANGED <<game_state, lobby_players, gameState, players, isProcessing, pendingCard,
                   showRowSelection, rowSelectionResolver, selectedCard, view, applied, runs, doublesTaken, probe, returning>>

StartUpdatePlayer ==
    /\ run.pc = "startPlayers"
    /\ lobby_players' = [lobby_players EXCEPT ![run.i] =
                            [score |-> 0, hand |-> run.hands[run.i], selected_card |-> NoCard]]
    /\ run' = IF run.i < NumPlayers THEN [run EXCEPT !.i = run.i + 1]
              ELSE [run EXCEPT !.pc = "startLobby"]
    /\ UNCHANGED <<game_state, gameState, players, isProcessing, pendingCard,
                   showRowSelection, rowSelectionResolver, selectedCard, view, applied, runs, doublesTaken, probe, returning>>

StartUpdateLobby ==
    /\ run.pc = "startLobby"
    /\ game_state' = run.newGameState
    /\ run' = Idle
    /\ UNCHANGED <<lobby_players, gameState, players, isProcessing, pendingCard,
                   showRowSelection, rowSelectionResolver, selectedCard, view, applied, runs, doublesTaken, probe, returning>>

(***************************************************************************)
(* GameScreen, every client.                                               *)
(***************************************************************************)
\* currentPlayer.hand and gameState.phase as the client's screen holds them
LocalHand(c) ==
    IF c = Host THEN (IF c \in DOMAIN players THEN players[c].hand ELSE <<>>)
    ELSE view[c].hand

LocalPhase(c) == IF c = Host THEN gameState.phase ELSE view[c].phase

\* rendering a hand that holds a null entry throws (card.number of null):
\* the screen of that client is gone
Crashed(c) == NoCard \in Range(LocalHand(c))

\* fetchGameData reads the lobby, then the players; fetches overlap, so each
\* read lands on its own
FetchLobby ==
    /\ game_state.phase # "none"
    /\ ~Crashed(Host)
    /\ gameState' = game_state
    /\ UNCHANGED <<game_state, lobby_players, players, isProcessing, pendingCard,
                   showRowSelection, rowSelectionResolver, selectedCard, view, run, applied, runs, doublesTaken, probe, returning>>

FetchPlayers ==
    /\ game_state.phase # "none"
    /\ ~Crashed(Host)
    /\ players' = lobby_players
    /\ UNCHANGED <<game_state, lobby_players, gameState, isProcessing, pendingCard,
                   showRowSelection, rowSelectionResolver, selectedCard, view, run, applied, runs, doublesTaken, probe, returning>>

\* fetchGameData on phase finished:
\* playersData.reduce((prev, curr) => prev.score < curr.score ? prev : curr)
RECURSIVE WinnerDataFrom(_, _, _)
WinnerDataFrom(ps, i, prev) ==
    IF i > Len(ps) THEN prev
    ELSE WinnerDataFrom(ps, i + 1, IF ps[prev].score < ps[i].score THEN prev ELSE i)

winnerData(ps) == WinnerDataFrom(ps, 2, 1)

\* another client's fetch: the phase and its own hand, as one read
FetchView(c) ==
    /\ game_state.phase # "none"
    /\ ~Crashed(c)
    /\ view' = [view EXCEPT ![c] = [phase |-> game_state.phase,
                                    hand |-> lobby_players[c].hand]]
    /\ UNCHANGED <<game_state, lobby_players, gameState, players, isProcessing, pendingCard,
                   showRowSelection, rowSelectionResolver, selectedCard, run, applied, runs, doublesTaken, probe, returning>>

\* a tap on a card of the hand on screen; the host's cards are disabled while
\* isProcessing
handleSelectCard(c, card) ==
    /\ ~Crashed(c)
    /\ card \in Range(LocalHand(c))
    /\ c = Host => ~isProcessing
    /\ LocalPhase(c) = "selecting"
    /\ LET newSelection == IF selectedCard[c] = card THEN NoCard ELSE card
       IN /\ selectedCard' = [selectedCard EXCEPT ![c] = newSelection]
          /\ lobby_players' = [lobby_players EXCEPT ![c].selected_card = newSelection]
    /\ UNCHANGED <<game_state, gameState, players, isProcessing, pendingCard,
                   showRowSelection, rowSelectionResolver, view, run, applied, runs, doublesTaken, probe, returning>>

(***************************************************************************)
(* GameScreen, host: checkAllSelected, processRevealAndPlace and           *)
(* processCardPlacements.  A step runs the code from one await to the      *)
(* next; the locals of the run (the values of the render that started it)  *)
(* are in run.                                                             *)
(***************************************************************************)
RECURSIVE Revealed(_, _)
Revealed(ps, p) ==
    IF p > Len(ps) THEN <<>>
    ELSE IF ps[p].selected_card # NoCard
         THEN <<[playerId |-> p, card |-> ps[p].selected_card]>> \o Revealed(ps, p + 1)
         ELSE Revealed(ps, p + 1)

checkAllSelected ==
    /\ ~Crashed(Host)
    /\ gameState.phase = "selecting"
    /\ Len(players) >= 2
    /\ \A p \in DOMAIN players : players[p].selected_card # NoCard
    /\ ~isProcessing
    /\ runs < MaxRuns
    /\ runs' = runs + 1
    /\ LET sorted == sortRevealedCards(Revealed(players, 1))
       IN /\ game_state' = [gameState EXCEPT !.phase = "revealing", !.revealedCards = sorted]
          /\ run' = [Idle EXCEPT !.pc = "countdown", !.gameState = gameState,
                                 !.players = players, !.sorted = sorted]
    /\ isProcessing' = TRUE
    /\ applied' = <<>>
    /\ UNCHANGED <<lobby_players, gameState, players, pendingCard, showRowSelection,
                   rowSelectionResolver, selectedCard, view, doublesTaken, probe, returning>>

\* first pass: place the cards that have a row, keep the others for later
RECURSIVE FirstPass(_, _)
FirstPass(sorted, st) ==
    IF sorted = <<>> THEN st
    ELSE LET pid == sorted[1].playerId
             card == sorted[1].card
             rowIndex == findRowForCard(card, st.rows)
         IN IF rowIndex = -1
            THEN FirstPass(Tail(sorted), [st EXCEPT !.needing = Append(@, sorted[1])])
            ELSE LET r == placeCardInRow(card, rowIndex, st.rows)
                 IN FirstPass(Tail(sorted),
                       [st EXCEPT !.rows = r.newRows,
                                  !.updates[pid] = @ + r.pigsTaken,
                                  !.log = Append(@, [playerId |-> pid, card |-> card,
                                                     by |-> "place", rowIndex |-> rowIndex,
                                                     rows |-> st.rows,
                                                     cardsTaken |-> r.cardsTaken])])

\* the inline loop of the second pass: the first row of the fewest pigs
RECURSIVE MinRowFrom(_, _, _, _, _)
MinRowFrom(rows, i, minIndex, minPigs, found) ==
    IF i >= Len(rows) THEN minIndex
    ELSE LET pigs == calculateRowPigs(rows[i + 1])
         IN IF ~found \/ pigs < minPigs
            THEN MinRowFrom(rows, i + 1, i, pigs, TRUE)
            ELSE MinRowFrom(rows, i + 1, minIndex, minPigs, found)

\* mutant: the default is the first row, whatever its pigs
AutoSelectRow_FirstRow(rows) == 0

AutoSelectRow(rows) == MinRowFrom(rows, 0, 0, 0, FALSE)

TakeStep(st, rc, rowIndex, by) ==
    LET r == takeRow(rc.card, rowIndex, st.rows)
    IN [st EXCEPT !.rows = r.newRows,
                  !.updates[rc.playerId] = @ + r.pigsTaken,
                  !.needing = Tail(@),
                  !.log = Append(@, [playerId |-> rc.playerId, card |-> rc.card,
                                     by |-> by, rowIndex |-> rowIndex,
                                     rows |-> st.rows, cardsTaken |-> r.cardsTaken])]

\* second pass, up to the card the host itself must choose a row for
RECURSIVE SecondPass(_)
SecondPass(st) ==
    IF st.needing = <<>> \/ st.needing[1].playerId = Host THEN st
    ELSE SecondPass(TakeStep(st, st.needing[1], AutoSelectRow(st.rows), "auto"))

\* the run goes on after the placements: to the row choice, or to the writes
AfterPasses(st, resumed) ==
    IF st.needing # <<>>
    THEN /\ game_state' = [run.gameState EXCEPT
                              !.phase = "row_selection",
                              !.tableRows = st.rows,
                              !.pendingRowSelection = [playerId |-> st.needing[1].playerId,
                                                       card |-> st.needing[1].card]]
         /\ pendingCard' = st.needing[1].card
         /\ showRowSelection' = TRUE
         /\ rowSelectionResolver' = TRUE
         /\ run' = [run EXCEPT !.pc = "waitForRowSelection", !.currentRows = st.rows,
                               !.playerScoreUpdates = st.updates, !.needing = st.needing]
    ELSE /\ run' = [run EXCEPT !.pc = "updatePlayers", !.i = 1, !.currentRows = st.rows,
                               !.playerScoreUpdates = st.updates, !.needing = <<>>]
         /\ pendingCard' = IF resumed THEN NoCard ELSE pendingCard
         /\ showRowSelection' = IF resumed THEN FALSE ELSE showRowSelection
         /\ rowSelectionResolver' = IF resumed THEN FALSE ELSE rowSelectionResolver
         /\ UNCHANGED game_state

\* the special doubles that the log entries after the first `from` give each player
DoublesIn(log, from, p) ==
    Cardinality({<<k, n>> \in (DOMAIN log) \X (1..RowCapacity) :
                    /\ k > from
                    /\ log[k].playerId = p
                    /\ n \in DOMAIN log[k].cardsTaken
                    /\ log[k].cardsTaken[n] \in SPECIAL_DOUBLES})

\* the countdown is over
processCardPlacements ==
    /\ run.pc = "countdown"
    /\ LET st == SecondPass(FirstPass(run.sorted,
                    [rows |-> run.gameState.tableRows, updates |-> NoScoreUpdates,
                     needing |-> <<>>, log |-> <<>>]))
       IN /\ AfterPasses(st, FALSE)
          /\ applied' = st.log
          /\ doublesTaken' = [p \in Players |-> doublesTaken[p] + DoublesIn(st.log, 0, p)]
    /\ UNCHANGED <<lobby_players, gameState, players, isProcessing, selectedCard, view, runs,
                   probe, returning>>

\* a tap on a row while the rows are selectable
handleSelectRow(rowIndex) ==
    /\ ~Crashed(Host)
    /\ showRowSelection
    /\ rowIndex \in 0..(Len(gameState.tableRows) - 1)
    /\ pendingCard # NoCard
    /\ rowSelectionResolver
    /\ run.pc = "waitForRowSelection"
    /\ LET st == SecondPass(TakeStep([rows |-> run.currentRows,
                                      updates |-> run.playerScoreUpdates,
                                      needing |-> run.needing, log |-> applied],
                                     run.needing[1], rowIndex, "choice"))
       IN /\ AfterPasses(st, TRUE)
          /\ applied' = st.log
          /\ doublesTaken' = [p \in Players |->
                                 doublesTaken[p] + DoublesIn(st.log, Len(applied), p)]
    /\ UNCHANGED <<lobby_players, gameState, players, isProcessing, selectedCard, view, runs,
                   probe, returning>>

\* player.hand.filter((c) => c.number !== player.selected_card?.number)
HandWithout(hand, selected) == FilterSeq(hand, Range(hand) \ {selected})

\* mutant: the pigs taken are subtracted
UpdatedScore_Subtracted(p) == run.players[p].score - run.playerScoreUpdates[p]

UpdatedScore(p) == run.players[p].score + run.playerScoreUpdates[p]

\* players.length > 0 && players.every(hand without the selected card is empty)
allHandsEmptyOf(ps) ==
    /\ Len(ps) > 0
    /\ \A p \in DOMAIN ps : HandWithout(ps[p].hand, ps[p].selected_card) = <<>>

allHandsEmpty == allHandsEmptyOf(run.players)

\* mutant: the game ends only past the losing score
gameOver_Strict == \E p \in DOMAIN run.players : UpdatedScore(p) > LoseScore

\* updatedPlayers.some((p) => p.score >= 66), updatedPlayers the players with
\* score + (playerScoreUpdates[p.player_id] || 0)
gameOverOf(ps, updates) == \E p \in DOMAIN ps : ps[p].score + updates[p] >= LoseScore

gameOver == gameOverOf(run.players, run.playerScoreUpdates)

\* the game state written when the batch ends the game or goes on in the round
NextGameState(phase) ==
    [run.gameState EXCEPT !.phase = phase,
                          !.tableRows = run.currentRows,
                          !.revealedCards = <<>>,
                          !.pendingRowSelection = NoPending]

\* one write of the loop over players: score, hand without the selected card,
\* no selection.  A null entry in the hand throws, and the run ends in the
\* catch of processRevealAndPlace.
UpdatePlayer ==
    /\ run.pc = "updatePlayers"
    /\ LET player == run.players[run.i]
       IN IF NoCard \in Range(player.hand)
          THEN /\ run' = Idle
               /\ isProcessing' = FALSE
               /\ UNCHANGED lobby_players
          ELSE /\ lobby_players' = [lobby_players EXCEPT ![run.i] =
                     [score |-> UpdatedScore(run.i),
                      hand |-> HandWithout(player.hand, player.selected_card),
                      selected_card |-> NoCard]]
               /\ run' = IF run.i < Len(run.players) THEN [run EXCEPT !.i = run.i + 1]
                         ELSE IF gameOver
                              THEN [run EXCEPT !.pc = "updateGameState",
                                               !.newGameState = NextGameState("finished")]
                         ELSE IF allHandsEmpty THEN [run EXCEPT !.pc = "startNewRound"]
                         ELSE [run EXCEPT !.pc = "updateGameState",
                                          !.newGameState = NextGameState("selecting")]
               /\ UNCHANGED isProcessing
    /\ UNCHANGED <<game_state, gameState, players, pendingCard, showRowSelection,
                   rowSelectionResolver, selectedCard, view, applied, runs, doublesTaken, probe, returning>>

\* mutant: the new round lays out four new rows from the new deck
StartNewRound_RowsReinitialized ==
    /\ run.pc = "startNewRound"
    /\ run.gameState.round < MaxRound
    /\ \E draws \in RandomDraws :
          run' = [run EXCEPT
                    !.pc = "dealHands", !.i = 1,
                    !.hands = startNewRound(Len(run.players), run.currentRows, draws).hands,
                    !.newGameState = [phase |-> "selecting",
                                      round |-> run.gameState.round + 1,
                                      tableRows |-> initializeTableRows(
                                                       shuffleDeck(createDeck, draws)).rows,
                                      revealedCards |-> <<>>,
                                      pendingRowSelection |-> NoPending]]
    /\ UNCHANGED <<game_state, lobby_players, gameState, players, isProcessing, pendingCard,
                   showRowSelection, rowSelectionResolver, selectedCard, view, applied, runs,
                   doublesTaken, probe, returning>>

\* the round is over: new hands, the rows kept
StartNewRound ==
    /\ run.pc = "startNewRound"
    /\ run.gameState.round < MaxRound
    /\ \E draws \in RandomDraws :
          run' = [run EXCEPT
                    !.pc = "dealHands", !.i = 1,
                    !.hands = startNewRound(Len(run.players), run.currentRows, draws).hands,
                    !.newGameState = [phase |-> "selecting",
                                      round |-> run.gameState.round + 1,
                                      tableRows |-> run.currentRows,
                                      revealedCards |-> <<>>,
                                      pendingRowSelection |-> NoPending]]
    /\ UNCHANGED <<game_state, lobby_players, gameState, players, isProcessing, pendingCard,
                   showRowSelection, rowSelectionResolver, selectedCard, view, applied, runs, doublesTaken, probe, returning>>

DealHand ==
    /\ run.pc = "dealHands"
    /\ lobby_players' = [lobby_players EXCEPT ![run.i].hand = run.hands[run.i],
                                              ![run.i].selected_card = NoCard]
    /\ run' = IF run.i < Len(run.players) THEN [run EXCEPT !.i = run.i + 1]
              ELSE [run EXCEPT !.pc = "updateGameState"]
    /\ UNCHANGED <<game_state, gameState, players, isProcessing, pendingCard,
                   showRowSelection, rowSelectionResolver, selectedCard, view, applied, runs, doublesTaken, probe, returning>>

\* the last write of the run, and the finally of processRevealAndPlace
UpdateGameState ==
    /\ run.pc = "updateGameState"
    /\ game_state' = run.newGameState
    /\ selectedCard' = [selectedCard EXCEPT ![Host] = NoCard]
    /\ isProcessing' = FALSE
    /\ run' = Idle
    /\ UNCHANGED <<lobby_players, gameState, players, pendingCard, showRowSelection,
                   rowSelectionResolver, view, applied, runs, doublesTaken, probe, returning>>

Next ==
    \/ HandleStartGame
    \/ StartUpdatePlayer
    \/ StartUpdateLobby
    \/ FetchLobby
    \/ FetchPlayers
    \/ \E c \in Others : FetchView(c)
    \/ \E c \in Players : \E card \in 1..DeckSize : handleSelectCard(c, card)
    \/ checkAllSelected
    \/ processCardPlacements
    \/ \E rowIndex \in 0..(NumRows - 1) : handleSelectRow(rowIndex)
    \/ UpdatePlayer
    \/ StartNewRound
    \/ DealHand
    \/ UpdateGameState

Spec == Init /\ [][Next]_vars

(***************************************************************************)
(* The same steps, with the writes of the host's run taken whenever they   *)
(* can be: the run is one async function, and each write is the            *)
(* continuation of the awaited write before it.  Taps, timers and fetches  *)
(* get no fairness.                                                        *)
(***************************************************************************)
RunFairness ==
    /\ WF_vars(UpdatePlayer)
    /\ WF_vars(StartNewRound)
    /\ WF_vars(DealHand)
    /\ WF_vars(UpdateGameState)

SpecFair == Spec /\ RunFairness

(***************************************************************************)
(* handleReturnToLobby (game over modal, host only): the lobby write, then *)
(* one write per player of the host's list, then the screen is replaced by *)
(* the lobby screen.  The modal shows once a fetch saw the phase finished. *)
(***************************************************************************)
ReturnToLobby ==
    /\ ~Crashed(Host)
    /\ gameState.phase = "finished"
    /\ players # <<>>
    /\ returning = 0
    /\ game_state' = NoGame
    /\ returning' = 1
    /\ UNCHANGED <<lobby_players, gameState, players, isProcessing, pendingCard,
                   showRowSelection, rowSelectionResolver, selectedCard, view, run, applied,
                   runs, doublesTaken, probe>>

ReturnUpdatePlayer ==
    /\ returning \in DOMAIN players
    /\ lobby_players' = [lobby_players EXCEPT ![returning] =
                            [score |-> 0, hand |-> <<>>, selected_card |-> NoCard]]
    /\ IF returning < Len(players)
       THEN /\ returning' = returning + 1
            /\ UNCHANGED <<gameState, players>>
       ELSE /\ returning' = 0
            /\ gameState' = NoGame
            /\ players' = <<>>
    /\ UNCHANGED <<game_state, isProcessing, pendingCard, showRowSelection,
                   rowSelectionResolver, selectedCard, view, run, applied, runs,
                   doublesTaken, probe>>

\* the model follows one game to its end and back to the lobby: no second
\* game is started once a reveal batch has run
StartFirstGame == runs = 0 /\ HandleStartGame

NextLobby ==
    \/ StartFirstGame
    \/ StartUpdatePlayer
    \/ StartUpdateLobby
    \/ FetchLobby
    \/ FetchPlayers
    \/ \E c \in Others : FetchView(c)
    \/ \E c \in Players : \E card \in 1..DeckSize : handleSelectCard(c, card)
    \/ checkAllSelected
    \/ processCardPlacements
    \/ \E rowIndex \in 0..(NumRows - 1) : handleSelectRow(rowIndex)
    \/ UpdatePlayer
    \/ StartNewRound
    \/ DealHand
    \/ UpdateGameState
    \/ ReturnToLobby
    \/ ReturnUpdatePlayer

SpecLobby == Init /\ [][NextLobby]_vars

(***************************************************************************)
(* handleSelectRow when there is nothing to choose: no pending card, or no *)
(* resolver waiting (a second tap on the rows of a render that still shows *)
(* them: the ref is cleared by the first tap).  The call returns, or warns *)
(* on the console.  probe records that the call was made; the steps around *)
(* it are those of the first batch of a game.                              *)
(***************************************************************************)
\* mutant: the row is taken for the player stored as pending
handleSelectRowIgnored_TakesRow(rowIndex) ==
    /\ probe = NoProbe
    /\ ~Crashed(Host)
    /\ rowIndex \in 0..(Len(gameState.tableRows) - 1)
    /\ pendingCard = NoCard \/ ~rowSelectionResolver
    /\ probe' = [op |-> "handleSelectRow", rowIndex |-> rowIndex]
    /\ game_state' = [game_state EXCEPT
                         !.tableRows = takeRow(NoCard, rowIndex, gameState.tableRows).newRows]
    /\ UNCHANGED <<lobby_players, gameState, players, isProcessing, pendingCard,
                   showRowSelection, rowSelectionResolver, selectedCard, view, run, applied,
                   runs, doublesTaken, returning>>

handleSelectRowIgnored(rowIndex) ==
    /\ probe = NoProbe
    /\ ~Crashed(Host)
    /\ rowIndex \in 0..(Len(gameState.tableRows) - 1)
    /\ pendingCard = NoCard \/ ~rowSelectionResolver
    /\ probe' = [op |-> "handleSelectRow", rowIndex |-> rowIndex]
    /\ UNCHANGED <<game_state, lobby_players, gameState, players, isProcessing, pendingCard,
                   showRowSelection, rowSelectionResolver, selectedCard, view, run, applied,
                   runs, doublesTaken, returning>>

FirstBatch == runs = 0 /\ checkAllSelected

NextTaps ==
    \/ HandleStartGame
    \/ StartUpdatePlayer
    \/ StartUpdateLobby
    \/ FetchLobby
    \/ FetchPlayers
    \/ \E c \in Others : FetchView(c)
    \/ \E c \in Players : \E card \in 1..DeckSize : handleSelectCard(c, card)
    \/ FirstBatch
    \/ processCardPlacements
    \/ \E rowIndex \in 0..(NumRows - 1) : handleSelectRow(rowIndex)
    \/ \E rowIndex \in 0..(NumRows - 1) : handleSelectRowIgnored(rowIndex)
    \/ UpdatePlayer
    \/ UpdateGameState

SpecTaps == Init /\ [][NextTaps]_vars

(***************************************************************************)
(* The table under any sequence of placements and captures: the rows of    *)
(* initializeGame, then cards that are not on the table, each resolved as  *)
(* processCardPlacements resolves one card (findRowForCard, then           *)
(* placeCardInRow, or takeRow on any row when there is none).  applied     *)
(* holds the last resolution, runs counts them.                            *)
(***************************************************************************)
\* the model stops resolving cards on the table after this many
MaxOps == 5

TableDraws ==
    RandomDraws \cup { <<1, 1, 3, 1, 3, 2, 4, 5, 6, 7, 8>> }

InitTable ==
    /\ \E draws \in TableDraws : game_state = initializeGame(NumPlayers, draws).gameState
    /\ lobby_players = [p \in Players |-> [score |-> 0, hand |-> <<>>, selected_card |-> NoCard]]
    /\ gameState = NoGame
    /\ players = <<>>
    /\ isProcessing = FALSE
    /\ pendingCard = NoCard
    /\ showRowSelection = FALSE
    /\ rowSelectionResolver = FALSE
    /\ selectedCard = [p \in Players |-> NoCard]
    /\ view = [p \in Others |-> [phase |-> "none", hand |-> <<>>]]
    /\ run = Idle
    /\ applied = <<>>
    /\ runs = 0
    /\ doublesTaken = [p \in Players |-> 0]
    /\ probe = NoProbe
    /\ returning = 0

TableResolve(card, st) ==
    /\ game_state' = [game_state EXCEPT !.tableRows = st.rows]
    /\ applied' = <<Last(st.log)>>
    /\ runs' = runs + 1
    /\ UNCHANGED <<lobby_players, gameState, players, isProcessing, pendingCard,
                   showRowSelection, rowSelectionResolver, selectedCard, view, run,
                   doublesTaken, probe, returning>>

TableStart(card) ==
    [rows |-> game_state.tableRows, updates |-> NoScoreUpdates,
     needing |-> <<>>, log |-> <<>>]

TablePlace(card) ==
    /\ runs < MaxOps
    /\ card \notin Range(FlattenRows(game_state.tableRows))
    /\ findRowForCard(card, game_state.tableRows) # -1
    /\ TableResolve(card, FirstPass(<<[playerId |-> Host, card |-> card]>>, TableStart(card)))

TableTake(card, rowIndex) ==
    /\ runs < MaxOps
    /\ card \notin Range(FlattenRows(game_state.tableRows))
    /\ findRowForCard(card, game_state.tableRows) = -1
    /\ LET st == FirstPass(<<[playerId |-> Host, card |-> card]>>, TableStart(card))
       IN TableResolve(card, TakeStep(st, st.needing[1], rowIndex, "choice"))

NextTable ==
    \/ \E card \in 1..DeckSize : TablePlace(card)
    \/ \E card \in 1..DeckSize : \E rowIndex \in 0..(NumRows - 1) : TableTake(card, rowIndex)

SpecTable == InitTable /\ [][NextTable]_vars

(***************************************************************************)
(* The rules functions called on their own, on any arguments of the sets   *)
(* below: probe holds the arguments and the result of the last call.  The  *)
(* tables include rows that end with the same card and cards that are on   *)
(* the table already, as a table can when a batch is resolved twice.       *)
(***************************************************************************)
\* the largest number of players the functions are called with
MaxProbePlayers == 4

ProbeRows == {<<2>>, <<7>>, <<15>>, <<40>>, <<11>>, <<5, 10>>, <<3, 7>>}

ProbeTables == [1..NumRows -> ProbeRows]

ProbeCards == {1, 7, 10, 16, 41}

ProbeDecks == {SubSeq(createDeck, 1, k) : k \in 0..DeckSize}

ProbeScoreLists ==
    UNION {[1..n -> [score : {-11, 0, 5}]] : n \in 1..3}

ProbeHandLists ==
    [1..2 -> [score : {0}, hand : {<<>>, <<5>>, <<5, 8>>}, selected_card : {NoCard, 5}]]

\* one call a behaviour: the functions keep no state between calls
RulesFrame ==
    /\ probe = NoProbe
    /\ UNCHANGED <<game_state, lobby_players, gameState, players, isProcessing,
                   pendingCard, showRowSelection, rowSelectionResolver, selectedCard, view,
                   run, applied, runs, doublesTaken, returning>>

CallDealCards(deck, numPlayers) ==
    /\ RulesFrame
    /\ probe' = [op |-> "dealCards", deck |-> deck, numPlayers |-> numPlayers,
                 hands |-> dealCards(deck, numPlayers).hands,
                 remainingDeck |-> dealCards(deck, numPlayers).remainingDeck]

CallStartNewRound(numPlayers, existingRows, draws) ==
    /\ RulesFrame
    /\ probe' = [op |-> "startNewRound", rows |-> existingRows, numPlayers |-> numPlayers,
                 hands |-> startNewRound(numPlayers, existingRows, draws).hands]

CallFindRowForCard(card, rows) ==
    /\ RulesFrame
    /\ probe' = [op |-> "findRowForCard", card |-> card, rows |-> rows,
                 result |-> findRowForCard(card, rows)]

\* findSmallestRow and the inline loop of processCardPlacements on the same rows
CallFindSmallestRow(rows) ==
    /\ RulesFrame
    /\ probe' = [op |-> "findSmallestRow", rows |-> rows,
                 result |-> findSmallestRow(rows), inline |-> AutoSelectRow(rows)]

\* getWinner and the winner fetchGameData computes, on the same players
CallGetWinner(ps) ==
    /\ RulesFrame
    /\ probe' = [op |-> "getWinner", players |-> ps,
                 result |-> getWinner(ps), shown |-> winnerData(ps)]

\* isRoundComplete and the inline test of processCardPlacements on the same players
CallIsRoundComplete(ps) ==
    /\ RulesFrame
    /\ probe' = [op |-> "isRoundComplete", players |-> ps,
                 result |-> isRoundComplete(ps), inline |-> allHandsEmptyOf(ps)]

NextRules ==
    \/ \E deck \in ProbeDecks : \E n \in 2..MaxProbePlayers : CallDealCards(deck, n)
    \/ \E rows \in ProbeTables : \E n \in 2..MaxProbePlayers : \E draws \in RandomDraws :
          CallStartNewRound(n, rows, draws)
    \/ \E card \in ProbeCards : \E rows \in ProbeTables : CallFindRowForCard(card, rows)
    \/ \E rows \in ProbeTables : CallFindSmallestRow(rows)
    \/ \E ps \in ProbeScoreLists : CallGetWinner(ps)
    \/ \E ps \in ProbeHandLists : CallIsRoundComplete(ps)

SpecRules == Init /\ [][NextRules]_vars

(***************************************************************************)
(* A game of 2 to MaxProbePlayers players played one step at a time: every *)
(* client has fetched the store before it acts and the host's run is not   *)
(* overlapped by anything (the schedule the screen is written for).  The   *)
(* start of the game and the resolution of a batch are each one step: the  *)
(* writes of handleStartGame, and those of processRevealAndPlace and       *)
(* processCardPlacements, in their order.  runs counts the batches and     *)
(* applied is the log of the last one.                                     *)
(***************************************************************************)
\* the lobby before the game, with 2 to MaxProbePlayers players joined
InitPlay ==
    /\ \E n \in 2..MaxProbePlayers :
          lobby_players = [p \in 1..n |-> [score |-> 0, hand |-> <<>>, selected_card |-> NoCard]]
    /\ game_state = NoGame
    /\ gameState = NoGame
    /\ players = <<>>
    /\ isProcessing = FALSE
    /\ pendingCard = NoCard
    /\ showRowSelection = FALSE
    /\ rowSelectionResolver = FALSE
    /\ selectedCard = [p \in Players |-> NoCard]
    /\ view = [p \in Others |-> [phase |-> "none", hand |-> <<>>]]
    /\ run = Idle
    /\ applied = <<>>
    /\ runs = 0
    /\ doublesTaken = [p \in Players |-> 0]
    /\ probe = NoProbe
    /\ returning = 0

PlayFrame ==
    UNCHANGED <<gameState, players, isProcessing, pendingCard, showRowSelection,
                rowSelectionResolver, selectedCard, view, run, doublesTaken, probe, returning>>

\* handleStartGame, all its writes
PlayStart ==
    /\ game_state.phase = "none"
    /\ Len(lobby_players) >= 2 /\ Len(lobby_players) <= 10
    /\ \E draws \in TableDraws :
          LET g == initializeGame(Len(lobby_players), draws)
          IN /\ lobby_players' = [p \in DOMAIN lobby_players |->
                                     [score |-> 0, hand |-> g.hands[p], selected_card |-> NoCard]]
             /\ game_state' = g.gameState
    /\ UNCHANGED <<applied, runs>>
    /\ PlayFrame

\* handleSelectCard on a screen that shows the stored hand; a hand that holds
\* a null entry cannot be shown
PlaySelect(p, card) ==
    /\ game_state.phase = "selecting"
    /\ p \in DOMAIN lobby_players
    /\ NoCard \notin Range(lobby_players[p].hand)
    /\ card \in Range(lobby_players[p].hand)
    /\ lobby_players[p].selected_card = NoCard
    /\ lobby_players' = [lobby_players EXCEPT ![p].selected_card = card]
    /\ UNCHANGED <<game_state, applied, runs>>
    /\ PlayFrame

\* the store after the writes of processCardPlacements, from the table, the
\* score updates and the log the placements ended with
PlayWrites(st) ==
    LET ps == lobby_players
        updated == [p \in DOMAIN ps |->
                       [score |-> ps[p].score + st.updates[p],
                        hand |-> HandWithout(ps[p].hand, ps[p].selected_card),
                        selected_card |-> NoCard]]
    IN /\ applied' = st.log
       /\ runs' = runs + 1
       /\ IF gameOverOf(ps, st.updates)
          THEN /\ lobby_players' = updated
               /\ game_state' = [game_state EXCEPT !.phase = "finished", !.tableRows = st.rows,
                                                   !.revealedCards = <<>>,
                                                   !.pendingRowSelection = NoPending]
          ELSE IF allHandsEmptyOf(ps)
          THEN /\ game_state.round < MaxRound
               /\ \E draws \in RandomDraws :
                     lobby_players' =
                        [p \in DOMAIN ps |->
                            [updated[p] EXCEPT
                                !.hand = startNewRound(Len(ps), st.rows, draws).hands[p]]]
               /\ game_state' = [phase |-> "selecting", round |-> game_state.round + 1,
                                 tableRows |-> st.rows, revealedCards |-> <<>>,
                                 pendingRowSelection |-> NoPending]
          ELSE /\ lobby_players' = updated
               /\ game_state' = [game_state EXCEPT !.phase = "selecting", !.tableRows = st.rows,
                                                   !.revealedCards = <<>>,
                                                   !.pendingRowSelection = NoPending]

\* the batch once every player has selected: the two passes, the host's row
\* choice if its card has no row, and the writes
PlayBatch ==
    /\ game_state.phase = "selecting"
    /\ Len(lobby_players) >= 2
    /\ \A p \in DOMAIN lobby_players : lobby_players[p].selected_card # NoCard
    /\ LET sorted == sortRevealedCards(Revealed(lobby_players, 1))
           st == SecondPass(FirstPass(sorted,
                    [rows |-> game_state.tableRows,
                     updates |-> [p \in DOMAIN lobby_players |-> 0],
                     needing |-> <<>>, log |-> <<>>]))
       IN IF st.needing = <<>>
          THEN PlayWrites(st)
          ELSE \E rowIndex \in 0..(Len(st.rows) - 1) :
                  PlayWrites(SecondPass(TakeStep(st, st.needing[1], rowIndex, "choice")))
    /\ PlayFrame

NextPlay ==
    \/ PlayStart
    \/ \E p \in 1..MaxProbePlayers : \E card \in 1..DeckSize : PlaySelect(p, card)
    \/ PlayBatch

SpecPlay == InitPlay /\ [][NextPlay]_vars

(***************************************************************************)
(* handleJoinLobby (home screen), run by several clients at once on one    *)
(* lobby.  A step is the code from one await to the next: the read of the  *)
(* lobby, the read of the client's own record, the count of the records    *)
(* and the insert.  The records carry the player_id of the client; the     *)
(* position of each client and the count it read are in probe.             *)
(***************************************************************************)
\* if (count && count >= 10)
MaxLobbyPlayers == 10

NumJoining == 3

\* the clients that run handleJoinLobby; the first of them may have joined before
Joining == MaxLobbyPlayers..(MaxLobbyPlayers + NumJoining - 1)

NewPlayer(c) == [player_id |-> c, score |-> 0, hand |-> <<>>, selected_card |-> NoCard]

InitJoin ==
    /\ \E n \in (MaxLobbyPlayers - 2)..MaxLobbyPlayers :
          lobby_players = [p \in 1..n |-> NewPlayer(p)]
    /\ probe = [op |-> "handleJoinLobby",
                pc |-> [c \in Joining |-> "start"],
                count |-> [c \in Joining |-> 0]]
    /\ game_state = NoGame
    /\ gameState = NoGame
    /\ players = <<>>
    /\ isProcessing = FALSE
    /\ pendingCard = NoCard
    /\ showRowSelection = FALSE
    /\ rowSelectionResolver = FALSE
    /\ selectedCard = [p \in Players |-> NoCard]
    /\ view = [p \in Others |-> [phase |-> "none", hand |-> <<>>]]
    /\ run = Idle
    /\ applied = <<>>
    /\ runs = 0
    /\ doublesTaken = [p \in Players |-> 0]
    /\ returning = 0

JoinFrame ==
    UNCHANGED <<game_state, gameState, players, isProcessing, pendingCard,
                showRowSelection, rowSelectionResolver, selectedCard, view, run,
                applied, runs, doublesTaken, returning>>

\* the read of the lobby: a game that has started is refused
JoinFindLobby(c) ==
    /\ probe.pc[c] = "start"
    /\ probe' = [probe EXCEPT !.pc[c] = IF game_state.phase # "none" THEN "refused"
                                        ELSE "found"]
    /\ UNCHANGED lobby_players
    /\ JoinFrame

\* the read of the client's own record: a client that is in goes to the lobby
JoinCheckExisting(c) ==
    /\ probe.pc[c] = "found"
    /\ probe' = [probe EXCEPT !.pc[c] =
                    IF \E p \in DOMAIN lobby_players : lobby_players[p].player_id = c
                    THEN "navigated" ELSE "notExisting"]
    /\ UNCHANGED lobby_players
    /\ JoinFrame

\* the count of the records of the lobby, and the test of it
JoinCountPlayers(c) ==
    /\ probe.pc[c] = "notExisting"
    /\ LET count == Len(lobby_players)
       IN probe' = [probe EXCEPT !.count[c] = count,
                                 !.pc[c] = IF count # 0 /\ count >= MaxLobbyPlayers
                                           THEN "full" ELSE "counted"]
    /\ UNCHANGED lobby_players
    /\ JoinFrame

\* the insert; UNIQUE(lobby_id, player_id) is the only constraint of the
\* table, and no other client inserts the player_id of this one
JoinInsertPlayer(c) ==
    /\ probe.pc[c] = "counted"
    /\ lobby_players' = Append(lobby_players, NewPlayer(c))
    /\ probe' = [probe EXCEPT !.pc[c] = "navigated"]
    /\ JoinFrame

handleJoinLobby(c) ==
    \/ JoinFindLobby(c)
    \/ JoinCheckExisting(c)
    \/ JoinCountPlayers(c)
    \/ JoinInsertPlayer(c)

NextJoin == \E c \in Joining : handleJoinLobby(c)

SpecJoin == InitJoin /\ [][NextJoin]_vars

(***************************************************************************)
(* The functions that build and change the deck, the hands and the rows,   *)
(* called on their own as in SpecRules.  Decks are in any order, rows hold *)
(* one to five cards, and shuffleDeck is given every outcome of its draws. *)
(***************************************************************************)
\* createDeck: for (let i = 1; i <= 104; i++)
FullDeckSize == 104

\* the longest deck shuffled with every outcome of the draws
MaxShuffled == 4

RECURSIVE Reverse(_)
Reverse(s) == IF s = <<>> THEN <<>> ELSE Append(Reverse(Tail(s)), s[1])

ShuffledDecks ==
    {shuffleDeck(createDeck, draws) : draws \in TableDraws} \cup {Reverse(createDeck)}

\* decks as dealCards and initializeTableRows get them: shuffled, of any length
CardDecks == {SubSeq(d, 1, k) : d \in ShuffledDecks, k \in 0..DeckSize}

CardRows == {<<3>>, <<3, 5>>, <<1, 2, 4, 7>>, <<1, 2, 4, 7, 9>>, <<10, 11, 15, 20, 22>>}

CardTables == [1..NumRows -> CardRows]

PlacedCards == {8, 30}

\* the table and the reveal of the worked example
ExampleRows == <<<<1>>, <<23>>, <<50>>, <<99>>>>

ExampleCards == {5, 24, 48}

ScoredPlayers ==
    [1..2 -> [score : {-11, 0, LoseScore - 1, LoseScore, LoseScore + 1}]]

ScoreUpdates == [1..2 -> {-11, 0, 1}]

SmallDecks == {<<>>, <<7>>, <<3, 3>>, <<1, 2, 3>>, <<5, 5, 9>>, <<4, 1, 3, 2>>, <<2, 2, 6, 6>>}

AllDraws == [1..(MaxShuffled - 1) -> 0..(MaxShuffled - 1)]

CallPlaceCardInRow(card, rowIndex, rows) ==
    /\ RulesFrame
    /\ probe' = [op |-> "placeCardInRow", card |-> card, rowIndex |-> rowIndex, rows |-> rows,
                 newRows |-> placeCardInRow(card, rowIndex, rows).newRows,
                 pigsTaken |-> placeCardInRow(card, rowIndex, rows).pigsTaken,
                 cardsTaken |-> placeCardInRow(card, rowIndex, rows).cardsTaken,
                 objects |-> placeCardInRowObjects(card, rowIndex, rows)]

CallTakeRow(card, rowIndex, rows) ==
    /\ RulesFrame
    /\ probe' = [op |-> "takeRow", card |-> card, rowIndex |-> rowIndex, rows |-> rows,
                 newRows |-> takeRow(card, rowIndex, rows).newRows,
                 pigsTaken |-> takeRow(card, rowIndex, rows).pigsTaken,
                 cardsTaken |-> takeRow(card, rowIndex, rows).cardsTaken,
                 objects |-> takeRowObjects(card, rowIndex, rows)]

\* isGameOver on the updated players, and the inline test of processCardPlacements
CallIsGameOver(ps, updates) ==
    /\ RulesFrame
    /\ probe' = [op |-> "isGameOver", players |-> ps, updates |-> updates,
                 result |-> isGameOver([p \in DOMAIN ps |->
                                           [score |-> ps[p].score + updates[p]]]),
                 inline |-> gameOverOf(ps, updates)]

CallCalculatePigValue(cardNumber) ==
    /\ RulesFrame
    /\ probe' = [op |-> "calculatePigValue", cardNumber |-> cardNumber,
                 result |-> calculatePigValue(cardNumber)]

CallInitializeTableRows(deck) ==
    /\ RulesFrame
    /\ probe' = [op |-> "initializeTableRows", deck |-> deck,
                 rows |-> initializeTableRows(deck).rows,
                 remainingDeck |-> initializeTableRows(deck).remainingDeck]

\* deckAfter is the argument once the call has returned: shuffleDeck works on a copy
CallShuffleDeck(deck, draws) ==
    /\ RulesFrame
    /\ probe' = [op |-> "shuffleDeck", deck |-> deck, draws |-> draws,
                 result |-> shuffleDeck(deck, draws), deckAfter |-> deck]

\* createDeck as the source calls it, with its 104 cards
CallCreateDeck ==
    /\ RulesFrame
    /\ probe' = [op |-> "createDeck", result |-> createDeckOf(FullDeckSize)]

NextCards ==
    \/ CallCreateDeck
    \/ \E card \in PlacedCards : \E rowIndex \in 0..(NumRows - 1) : \E rows \in CardTables :
          CallPlaceCardInRow(card, rowIndex, rows)
    \/ \E card \in PlacedCards : \E rowIndex \in 0..(NumRows - 1) : \E rows \in CardTables :
          CallTakeRow(card, rowIndex, rows)
    \/ \E card \in ExampleCards : CallFindRowForCard(card, ExampleRows)
    \/ \E ps \in ScoredPlayers : \E updates \in ScoreUpdates : CallIsGameOver(ps, updates)
    \/ \E cardNumber \in 1..FullDeckSize : CallCalculatePigValue(cardNumber)
    \/ \E deck \in CardDecks : \E n \in 2..MaxProbePlayers : CallDealCards(deck, n)
    \/ \E deck \in {d \in CardDecks : Len(d) >= NumRows} : CallInitializeTableRows(deck)
    \/ \E deck \in SmallDecks : \E draws \in AllDraws : CallShuffleDeck(deck, draws)

SpecCards == Init /\ [][NextCards]_vars

(***************************************************************************)
(* Properties.  A resolution is an entry of applied: the card, its owner,  *)
(* how it was applied ("place": findRowForCard and placeCardInRow, "auto": *)
(* takeRow on the default row, "choice": takeRow on the row the host       *)
(* tapped), the table before it and the cards it captured.                 *)
(***************************************************************************)
InGame == game_state.phase # "none"

\* the pigs of the cards that the resolutions of log gave player p
RECURSIVE CapturedPigs(_, _)
CapturedPigs(log, p) ==
    IF log = <<>> THEN 0
    ELSE (IF log[1].playerId = p
          THEN SumSeq([n \in DOMAIN log[1].cardsTaken |->
                          calculatePigValue(log[1].cardsTaken[n])])
          ELSE 0) + CapturedPigs(Tail(log), p)

CapturedDouble(log, p) ==
    \E k \in DOMAIN log :
        log[k].playerId = p /\ Range(log[k].cardsTaken) \cap SPECIAL_DOUBLES # {}

\* the card is lower than the last card of every row
BelowEveryRow(card, rows) == \A r \in DOMAIN rows : card < Last(rows[r])

\* C1: within one reveal batch the cards are applied to the table strictly in
\* ascending card-number order, whether placed or capturing
C1_AppliedAscending ==
    \A i, j \in DOMAIN applied : i < j => applied[i].card < applied[j].card

\* C2: a card captures a row through takeRow only when, in the table at the
\* moment it is resolved, it is lower than the last card of every row;
\* otherwise it is placed with placeCardInRow
C2_TakeRowOnlyBelowEveryRow ==
    \A k \in DOMAIN applied :
        (applied[k].by # "place") <=> BelowEveryRow(applied[k].card, applied[k].rows)

BatchWrites(p) ==
    run.pc = "updatePlayers" /\ run.i = p /\ run' # run /\ run'.pc # "idle"

C4_ScoreNonNegative ==
    \A p \in Players : lobby_players[p].score \in Nat

\* C4 (amended): every participant's score is an integer of at least -11 times
\* the number of special doubles the participant's cards have captured
C4_ScoreAtLeastDoubles ==
    \A p \in Players :
        /\ lobby_players[p].score \in Int
        /\ lobby_players[p].score >= -11 * doublesTaken[p]

\* a participant holds a negative score
C4_Witness ==
    \E p \in Players : lobby_players[p].score < 0 /\ doublesTaken[p] > 0

\* C5: after any sequence of placements and captures every table row holds at
\* least 1 and at most 5 cards; the 6th card of a row captures its 5 cards and
\* starts the row anew
C5_RowsHoldOneToFive ==
    /\ \A r \in DOMAIN game_state.tableRows :
          Len(game_state.tableRows[r]) \in 1..5
    /\ \A k \in DOMAIN applied :
          LET e == applied[k]
              before == e.rows[e.rowIndex + 1]
              after == game_state.tableRows[e.rowIndex + 1]
          IN e.by = "place" =>
                IF Len(before) = 5
                THEN e.cardsTaken = before /\ after = <<e.card>>
                ELSE e.cardsTaken = <<>> /\ after = Append(before, e.card)

\* the last card placed was the 6th of its row
C5_Witness ==
    /\ applied # <<>>
    /\ applied[1].by = "place"
    /\ Len(applied[1].cardsTaken) = 5
    /\ game_state.tableRows[applied[1].rowIndex + 1] = <<applied[1].card>>

\* C6: in a game in progress the table holds exactly 4 rows, whatever
\* placements, full-row captures and chosen captures have happened
C6_FourRows ==
    InGame => Len(game_state.tableRows) = 4

\* the last card captured a row of several cards by choice, several
\* placements and captures in
C6_Witness ==
    /\ applied # <<>>
    /\ applied[1].by = "choice"
    /\ Len(applied[1].cardsTaken) >= 2
    /\ runs >= 3
    /\ Len(game_state.tableRows) = 4

\* the cards of the table rows and of every hand of the store, holes left out
CardsInPlay ==
    FlattenRows(game_state.tableRows)
        \o FilterSeq(FlattenRows([p \in Players |-> lobby_players[p].hand]),
                     1..DeckSize)

\* C7: no card number appears more than once among the cards of the table
\* rows and of all hands taken together
C7_NoDuplicateCard ==
    InGame => Cardinality(Range(CardsInPlay)) = Len(CardsInPlay)

\* C8: in the shared store a participant's non-null selected_card is a card
\* of that participant's hand
C8_SelectedCardInHand ==
    \A p \in Players :
        lobby_players[p].selected_card # NoCard
            => lobby_players[p].selected_card \in Range(lobby_players[p].hand)

\* every hand the run read holds nothing but the card selected from it
HandsEmptied ==
    \A p \in DOMAIN run.players :
        \A k \in DOMAIN run.players[p].hand :
            run.players[p].hand[k] = run.players[p].selected_card

OnePerParticipantSorted(revealed) ==
    /\ Len(revealed) = NumPlayers
    /\ {revealed[k].playerId : k \in DOMAIN revealed} = Players
    /\ \A k \in DOMAIN revealed : revealed[k].card # NoCard
    /\ \A i, j \in DOMAIN revealed : i < j => revealed[i].card < revealed[j].card

\* C10: the phase goes from selecting to revealing only in a state where
\* every participant has a non-null selected card, and the revealedCards
\* written hold one entry per participant, sorted ascending by card
C10_RevealOnlyWhenAllSelected ==
    [][(game_state.phase = "selecting" /\ game_state'.phase = "revealing") =>
          /\ \A p \in Players : lobby_players[p].selected_card # NoCard
          /\ OnePerParticipantSorted(game_state'.revealedCards)]_vars

\* the step is the first write of handleReturnToLobby
ReturnStep == returning = 0 /\ returning' = 1

\* C11: once the phase is finished nothing changes the phase, the table, a
\* score or a hand, except the return to the lobby, which sets the game state
\* to none and then every score to 0 and every hand to empty
C11_FinishedIsTerminal ==
    [][/\ game_state.phase = "finished" =>
            IF ReturnStep THEN game_state' = NoGame
            ELSE /\ game_state' = game_state
                 /\ \A p \in Players :
                       /\ lobby_players'[p].score = lobby_players[p].score
                       /\ lobby_players'[p].hand = lobby_players[p].hand
       /\ \A p \in Players :
             (returning = p /\ returning' # p) =>
                lobby_players'[p].score = 0 /\ lobby_players'[p].hand = <<>>]_vars

\* the table a resolution leaves: the card alone on its row when it captured
\* (a row by takeRow, or a full row by placement), else the card at the end
\* of its row; the other rows as before
RowsAfter(e) ==
    [e.rows EXCEPT ![e.rowIndex + 1] =
        IF e.by = "place" /\ e.cardsTaken = <<>> THEN Append(@, e.card) ELSE <<e.card>>]

\* C12: the game state written at a round boundary holds exactly the rows the
\* last resolution of the batch left: the same rows, in the same order
C12_RowsPersistAcrossRounds ==
    [][(game_state.phase # "none" /\ game_state'.phase # "none"
           /\ game_state'.round # game_state.round) =>
          /\ applied # <<>>
          /\ game_state'.tableRows = RowsAfter(Last(applied))]_vars

\* the second round is on, with new hands, over rows the first round built up
C12_Witness ==
    /\ game_state.phase = "selecting"
    /\ game_state.round = 2
    /\ applied # <<>>
    /\ game_state.tableRows = RowsAfter(Last(applied))
    /\ \E r \in DOMAIN game_state.tableRows : Len(game_state.tableRows[r]) >= 3
    /\ \A p \in Players : Len(lobby_players[p].hand) = HandSize

\* the card numbers of the deck that are on no row of the table
OffTable(rows) == (1..DeckSize) \ Range(FlattenRows(rows))

\* C13: dealing from a deck of fewer cards than the players' hands take
\* (dealCards, or startNewRound with too few numbers off the table) produces
\* no hands
C13_ShortDeckRejected ==
    /\ (probe.op = "dealCards" /\ Len(probe.deck) < HandSize * probe.numPlayers)
          => probe.hands = <<>>
    /\ (probe.op = "startNewRound"
           /\ Cardinality(OffTable(probe.rows)) < HandSize * probe.numPlayers)
          => probe.hands = <<>>

\* the cards of the batch on reveal are still in the hands they come from
RevealedStillInHand ==
    \A k \in DOMAIN game_state.revealedCards :
        game_state.revealedCards[k].card
            \in Range(lobby_players[game_state.revealedCards[k].playerId].hand)

\* C14: the store never shows participant records updated for a batch or a
\* deal next to a game state that is not: no hands without a game, no card
\* gone from a hand while the game state still shows it on reveal, no hand
\* longer than another
C14_WholeSnapshots ==
    /\ game_state.phase = "none" => \A p \in Players : lobby_players[p].hand = <<>>
    /\ game_state.phase \in {"revealing", "row_selection"} => RevealedStillInHand
    /\ \A p, q \in Players : Len(lobby_players[p].hand) = Len(lobby_players[q].hand)

\* the pigs of a row, card by card
PigsOfRow(row) == SumSeq([n \in DOMAIN row |-> calculatePigValue(row[n])])

\* index i (0-based) is the first row of the fewest pigs
FirstMinimumRow(i, rows) ==
    /\ i + 1 \in DOMAIN rows
    /\ \A r \in DOMAIN rows : PigsOfRow(rows[i + 1]) <= PigsOfRow(rows[r])
    /\ \A r \in 1..i : PigsOfRow(rows[i + 1]) < PigsOfRow(rows[r])

\* the host has tapped a row: the run leaves waitForRowSelection
RowChosen == run.pc = "waitForRowSelection" /\ run'.pc # "waitForRowSelection"

\* the run is past a row choice and its last write is still to come
ChoiceTaken ==
    /\ run.pc \in {"updatePlayers", "startNewRound", "dealHands", "updateGameState"}
    /\ game_state.phase = "row_selection"
    /\ \E k \in DOMAIN applied : applied[k].by = "choice"

\* C15: when the pending participant supplies a row index in row_selection,
\* takeRow is applied to that row with the pending card, the rest of the batch
\* is resolved, the participant's score changes by the pigs of the captured
\* row, and the phase eventually becomes selecting or finished (in the rounds
\* the model deals)
C15_RowChoiceResumes ==
    /\ [][RowChosen =>
            LET e == applied'[Len(applied) + 1]
                pid == game_state.pendingRowSelection.playerId
            IN /\ game_state.phase = "row_selection"
               /\ Len(applied') = Len(applied) + Len(run.needing)
               /\ e.by = "choice"
               /\ e.playerId = pid
               /\ e.card = game_state.pendingRowSelection.card
               /\ e.card = pendingCard
               /\ e.rowIndex \in 0..(NumRows - 1)
               /\ e.rows = game_state.tableRows
               /\ e.cardsTaken = game_state.tableRows[e.rowIndex + 1]
               /\ run'.playerScoreUpdates[pid]
                     = run.playerScoreUpdates[pid] + PigsOfRow(e.cardsTaken)
               /\ run'.needing = <<>>
               /\ run'.pc = "updatePlayers"]_vars
    /\ [][(BatchWrites(Host) /\ ChoiceTaken) =>
            lobby_players'[Host].score
               = lobby_players[Host].score + CapturedPigs(applied, Host)]_vars
    /\ (ChoiceTaken /\ run.gameState.round < MaxRound)
          ~> (game_state.phase \in {"selecting", "finished"})

C17_DefaultRowIsFirstMinimum ==
    probe.op = "findSmallestRow" =>
        /\ FirstMinimumRow(probe.result, probe.rows)
        /\ probe.inline = probe.result

\* several rows share the fewest pigs and the first of them is not row 0
C17_Witness ==
    /\ probe.op = "findSmallestRow"
    /\ probe.result > 0
    /\ probe.inline = probe.result
    /\ \E r \in (probe.result + 2)..Len(probe.rows) :
          PigsOfRow(probe.rows[r]) = PigsOfRow(probe.rows[probe.result + 1])

\* C18: the winner is the first player of the lowest score, for getWinner and
\* for the winner fetchGameData shows
C18_WinnerIsFirstMinimum ==
    probe.op = "getWinner" =>
        /\ \A p \in DOMAIN probe.players :
              probe.players[probe.result].score <= probe.players[p].score
        /\ \A p \in 1..(probe.result - 1) :
              probe.players[probe.result].score < probe.players[p].score
        /\ probe.shown = probe.result

\* every hand is empty once the card still selected from it is left out
HandsPlayedOut(ps) ==
    \A p \in DOMAIN ps :
        \A k \in DOMAIN ps[p].hand : ps[p].hand[k] = ps[p].selected_card

\* C19: the round-over test (isRoundComplete, and the inline test of
\* processCardPlacements) is true exactly when every hand, not counting the
\* card still selected from it, is empty
C19_RoundOverTest ==
    probe.op = "isRoundComplete" =>
        /\ probe.result <=> HandsPlayedOut(probe.players)
        /\ probe.inline <=> HandsPlayedOut(probe.players)

\* the rows whose last card is strictly below the card
RowsBelow(card, rows) == {r \in DOMAIN rows : Last(rows[r]) < card}

\* index i (0-based) is the first row with the largest last card below the card
ClosestRowBelow(i, card, rows) ==
    /\ i + 1 \in RowsBelow(card, rows)
    /\ \A r \in RowsBelow(card, rows) : Last(rows[r]) <= Last(rows[i + 1])
    /\ \A r \in RowsBelow(card, rows) : r < i + 1 => Last(rows[r]) < Last(rows[i + 1])

\* C20 (as stated): findRowForCard returns -1 exactly when the card is lower
\* than the last card of every row, and else the first row with the largest
\* last card strictly below the card
C20_FindRowForCard_LowerThanEvery ==
    probe.op = "findRowForCard" =>
        IF \A r \in DOMAIN probe.rows : probe.card < Last(probe.rows[r])
        THEN probe.result = -1
        ELSE ClosestRowBelow(probe.result, probe.card, probe.rows)

\* C20 (amended): findRowForCard returns -1 exactly when no row's last card is
\* strictly below the card (the card is lower than or equal to every last
\* card), and else the first row with the largest last card strictly below it
C20_FindRowForCard ==
    probe.op = "findRowForCard" =>
        IF RowsBelow(probe.card, probe.rows) = {}
        THEN probe.result = -1
        ELSE ClosestRowBelow(probe.result, probe.card, probe.rows)

\* two rows end with the same card, the largest below the card, and the first
\* of the two is returned
C20_Witness ==
    /\ probe.op = "findRowForCard"
    /\ probe.result >= 1
    /\ \E r \in (probe.result + 2)..Len(probe.rows) :
          Last(probe.rows[r]) = Last(probe.rows[probe.result + 1])
    /\ \E r \in 1..probe.result : Last(probe.rows[r]) < Last(probe.rows[probe.result + 1])

\* C23: startNewRound, for every number of players and every table, deals no
\* card whose number is on a row of the table
C23_NoTableCardDealt ==
    probe.op = "startNewRound" =>
        \A p \in DOMAIN probe.hands :
            \A k \in DOMAIN probe.hands[p] :
                probe.hands[p][k] \notin Range(FlattenRows(probe.rows))

\* a round dealt in full around a table that holds five or more numbers of the deck
C23_Witness ==
    /\ probe.op = "startNewRound"
    /\ Cardinality(Range(FlattenRows(probe.rows)) \cap (1..DeckSize)) >= 5
    /\ \A p \in DOMAIN probe.hands :
          /\ Len(probe.hands[p]) = HandSize
          /\ NoCard \notin Range(probe.hands[p])

\* the row the call is about, and the table with that row replaced
ProbedRow == probe.rows[probe.rowIndex + 1]

ProbedRowSetTo(row) == [probe.rows EXCEPT ![probe.rowIndex + 1] = row]

\* C21: placeCardInRow on a row of 5 cards returns those 5 cards, the sum of
\* their pigs and a table whose row is the new card alone; on a row of fewer
\* than 5 cards it returns the row with the card appended, 0 pigs and no cards
C21_PlaceCardInRow ==
    probe.op = "placeCardInRow" =>
        /\ Len(ProbedRow) = 5 =>
              /\ probe.cardsTaken = ProbedRow
              /\ probe.pigsTaken = PigsOfRow(ProbedRow)
              /\ probe.newRows = ProbedRowSetTo(<<probe.card>>)
        /\ Len(ProbedRow) < 5 =>
              /\ probe.cardsTaken = <<>>
              /\ probe.pigsTaken = 0
              /\ probe.newRows = ProbedRowSetTo(ProbedRow \o <<probe.card>>)

\* a sixth card captured a row of five whose pigs are not 0
C21_Witness ==
    /\ probe.op = "placeCardInRow"
    /\ Len(ProbedRow) = 5
    /\ Len(probe.cardsTaken) = 5
    /\ probe.pigsTaken # 0
    /\ probe.newRows[probe.rowIndex + 1] = <<probe.card>>

\* C22: takeRow on a row of 1 to 5 cards returns all the cards of the row, the
\* sum of their pigs and a table whose row is the new card alone
C22_TakeRow ==
    (probe.op = "takeRow" /\ Len(ProbedRow) \in 1..5) =>
        /\ probe.cardsTaken = ProbedRow
        /\ probe.pigsTaken = PigsOfRow(ProbedRow)
        /\ probe.newRows = ProbedRowSetTo(<<probe.card>>)

\* a row of two to four cards was taken
C22_Witness ==
    /\ probe.op = "takeRow"
    /\ Len(ProbedRow) \in 2..4
    /\ probe.cardsTaken = ProbedRow
    /\ probe.newRows[probe.rowIndex + 1] = <<probe.card>>

\* C25 (as stated): on the rows [1], [23], [50], [99], card 5 of the reveal
\* 5, 24, 48 has no row (findRowForCard returns -1)
C25_ExampleFiveHasNoRow ==
    (probe.op = "findRowForCard" /\ probe.rows = ExampleRows /\ probe.card = 5) =>
        probe.result = -1

\* C25 (amended): on the rows [1], [23], [50], [99], card 5 goes to the row
\* that ends in 1 (index 0); card 24, and 48 after it, go to the row that
\* starts with 23, so the reveal 5, 24, 48 needs no row capture
C25_ExampleFiveJoinsFirstRow ==
    (probe.op = "findRowForCard" /\ probe.rows = ExampleRows) =>
        /\ probe.card = 5 => probe.result = 0
        /\ probe.card = 24 => probe.result = 1
        /\ probe.card = 48 =>
              /\ probe.result = 1
              /\ findRowForCard(48, placeCardInRow(24, 1,
                    placeCardInRow(5, 0, ExampleRows).newRows).newRows) = 1

C25_Witness ==
    /\ probe.op = "findRowForCard"
    /\ probe.rows = ExampleRows
    /\ probe.card = 5
    /\ probe.result = 0

\* C26: isGameOver is true exactly when a score has reached the losing score
\* (66 in the source), false when the highest is one below it, and the test
\* of processCardPlacements on the scores it updates gives the same answer
C26_IsGameOver ==
    probe.op = "isGameOver" =>
        LET updated == {probe.players[p].score + probe.updates[p] : p \in DOMAIN probe.players}
        IN /\ probe.result <=> (\E sc \in updated : sc >= LoseScore)
           /\ (\A sc \in updated : sc <= LoseScore - 1) => ~probe.result
           /\ probe.inline <=> probe.result

\* the highest updated score is exactly the losing score, reached by this batch
C26_Witness ==
    /\ probe.op = "isGameOver"
    /\ probe.result
    /\ probe.inline
    /\ \A p \in DOMAIN probe.players :
          /\ probe.players[p].score < LoseScore
          /\ probe.players[p].score + probe.updates[p] <= LoseScore

\* C27: for every number from 1 to 104, calculatePigValue gives -11 for a
\* multiple of 11 up to 99, else 2 for a number that ends in 5, else 3 for a
\* number that ends in 0, else 1
C27_CalculatePigValue ==
    probe.op = "calculatePigValue" =>
        LET n == probe.cardNumber
            lastDigit == n - 10 * (n \div 10)
        IN probe.result =
              IF \E k \in 1..9 : n = 11 * k THEN -11
              ELSE IF lastDigit = 5 THEN 2
              ELSE IF lastDigit = 0 THEN 3
              ELSE 1

\* 55 is a double that ends in 5
C27_Witness ==
    /\ probe.op = "calculatePigValue"
    /\ probe.cardNumber = 55
    /\ probe.result = -11

\* s and t hold the same cards, each as many times
SameCards(s, t) ==
    /\ Len(s) = Len(t)
    /\ \A v \in Range(s) \cup Range(t) :
          Cardinality({i \in DOMAIN s : s[i] = v}) = Cardinality({i \in DOMAIN t : t[i] = v})

Ascending(s) == \A i, j \in DOMAIN s : i < j => s[i] <= s[j]

\* C28: dealCards on a deck that holds the cards of every hand returns one
\* hand per player, hand p holding the cards at its positions of the deck in
\* ascending order, and the rest of the deck from the first card not dealt on
C28_DealCards ==
    (probe.op = "dealCards" /\ Len(probe.deck) >= HandSize * probe.numPlayers) =>
        /\ Len(probe.hands) = probe.numPlayers
        /\ \A p \in DOMAIN probe.hands :
              /\ Len(probe.hands[p]) = HandSize
              /\ SameCards(probe.hands[p],
                           SubSeq(probe.deck, HandSize * (p - 1) + 1, HandSize * p))
              /\ Ascending(probe.hands[p])
        /\ probe.remainingDeck
              = [k \in 1..(Len(probe.deck) - HandSize * probe.numPlayers) |->
                    probe.deck[HandSize * probe.numPlayers + k]]

\* hands dealt from a deck that is not in ascending order, with cards left over
C28_Witness ==
    /\ probe.op = "dealCards"
    /\ Len(probe.deck) > HandSize * probe.numPlayers
    /\ probe.numPlayers >= 3
    /\ \E p \in DOMAIN probe.hands :
          probe.hands[p] # SubSeq(probe.deck, HandSize * (p - 1) + 1, HandSize * p)
    /\ probe.remainingDeck # <<>>

\* C29: initializeTableRows returns 4 rows of one card each, the first 4
\* cards of the deck in ascending order, and the deck without its first 4 cards
C29_InitializeTableRows ==
    probe.op = "initializeTableRows" =>
        /\ Len(probe.rows) = 4
        /\ \A r \in DOMAIN probe.rows : Len(probe.rows[r]) = 1
        /\ SameCards([r \in DOMAIN probe.rows |-> probe.rows[r][1]], SubSeq(probe.deck, 1, 4))
        /\ Ascending([r \in DOMAIN probe.rows |-> probe.rows[r][1]])
        /\ probe.remainingDeck = [k \in 1..(Len(probe.deck) - 4) |-> probe.deck[4 + k]]

\* the first four cards of the deck were not in ascending order, and cards are left
C29_Witness ==
    /\ probe.op = "initializeTableRows"
    /\ ~Ascending(SubSeq(probe.deck, 1, 4))
    /\ Len(probe.rows) = 4
    /\ probe.remainingDeck # <<>>

IgnoredRowTap == probe.op = "none" /\ probe'.op = "handleSelectRow"

\* C24: a row choice supplied when none is pending changes nothing: the table,
\* every score, every hand and the phase are as before the call, on the store
\* and on the host's screen; and a row choice that resumes the run had a
\* pending card and a waiting resolver
C24_RowChoiceWithoutPendingIgnored ==
    [][/\ IgnoredRowTap =>
             /\ pendingCard = NoCard \/ ~rowSelectionResolver
             /\ game_state' = game_state
             /\ lobby_players' = lobby_players
             /\ gameState' = gameState
             /\ players' = players
             /\ run' = run
             /\ applied' = applied
             /\ pendingCard' = pendingCard
             /\ rowSelectionResolver' = rowSelectionResolver
             /\ showRowSelection' = showRowSelection
       /\ RowChosen => (pendingCard # NoCard /\ rowSelectionResolver)]_vars

\* a row was tapped after the choice of the batch was made, while the run was
\* writing the players
C24_Witness ==
    /\ probe.op = "handleSelectRow"
    /\ run.pc = "updatePlayers"
    /\ \E k \in DOMAIN applied : applied[k].by = "choice"
    /\ game_state.phase = "row_selection"

\* C31: createDeck returns exactly 104 cards, their numbers 1..104 without
\* duplicates, each with the pigs calculatePigValue gives its number
C31_CreateDeck ==
    probe.op = "createDeck" =>
        /\ Len(probe.result) = 104
        /\ {probe.result[i].number : i \in DOMAIN probe.result} = 1..104
        /\ \A i, j \in DOMAIN probe.result :
              probe.result[i].number = probe.result[j].number => i = j
        /\ \A i \in DOMAIN probe.result :
              probe.result[i].pigs = calculatePigValue(probe.result[i].number)

\* the deck was built: its first card is 1 and its last is 104
C31_Witness ==
    /\ probe.op = "createDeck"
    /\ probe.result[1].number = 1
    /\ probe.result[Len(probe.result)].number = 104

\* the step that deals a new round
RoundDealt == game_state.phase # "none" /\ game_state'.round = game_state.round + 1

\* the hand holds HandSize cards of the deck, no card twice and no hole
FullHand(hand) ==
    /\ Len(hand) = HandSize
    /\ Range(hand) \subseteq 1..DeckSize
    /\ Cardinality(Range(hand)) = HandSize

\* C32: at every round boundary that play reaches, the numbers off the table
\* are enough for every hand, and after startNewRound every participant
\* holds a full hand of distinct valid cards
C32_EnoughCardsOffTable ==
    [][RoundDealt =>
          /\ Cardinality(OffTable(game_state'.tableRows)) >= HandSize * Len(lobby_players)
          /\ \A p \in DOMAIN lobby_players' : FullHand(lobby_players'[p].hand)]_vars

\* the host starts to resolve a batch: the reveal is written and the run begins
BatchStarts == runs' = runs + 1 /\ run'.pc = "countdown"

\* C33: a batch is resolved once: the host starts a run only in phase
\* selecting and only on cards that no earlier run took out of their owners'
\* hands; a snapshot older than the last resolved batch never makes it place
\* and score the same selected cards again
C33_BatchResolvedOnce ==
    [][BatchStarts =>
          /\ game_state.phase = "selecting"
          /\ \A k \in DOMAIN run'.sorted :
                run'.sorted[k].card
                    \in Range(lobby_players[run'.sorted[k].playerId].hand)]_vars

\* C34: the write of a resolved batch changes each participant's stored score
\* by the summed pigs of the cards that the participant's card took from the
\* table in that batch, 0 when it took none; summed over the participants,
\* the changes are the pigs of the cards that left the table
C34_ScoreChangeIsCaptured ==
    [][\A p \in Players :
          BatchWrites(p) =>
             lobby_players'[p].score - lobby_players[p].score
                = CapturedPigs(applied, p)]_vars

\* the numbers of the row go up from each card to the next
StrictlyIncreasing(row) == \A i, j \in DOMAIN row : i < j => row[i] < row[j]

\* C35: in every table of the game (the stored one, the one on the host's
\* screen and the working table of a run) the card numbers of each row are
\* strictly increasing from the first card to the last, so the last card of a
\* row is its highest
C35_RowsStrictlyIncreasing ==
    \A rows \in {game_state.tableRows, gameState.tableRows, run.currentRows} :
        \A r \in DOMAIN rows :
            /\ StrictlyIncreasing(rows[r])
            /\ \A k \in DOMAIN rows[r] : rows[r][k] <= Last(rows[r])

\* a row of the stored table has grown to three cards or more, in a table
\* where another row was captured by a lower card
C35_Witness ==
    /\ \E r \in DOMAIN game_state.tableRows : Len(game_state.tableRows[r]) >= 3
    /\ \E k \in DOMAIN applied : applied[k].by # "place"

\* the cards of a hand: its entries that are not holes
CardsOf(hand) == FilterSeq(hand, 1..DeckSize)

\* C36: in every state whose phase is selecting all the participants hold the
\* same number of cards, at least 1 and at most a full hand (10 in the
\* source), so every participant has a card to select
C36_EqualHandsWhileSelecting ==
    game_state.phase = "selecting" =>
        \A p, q \in DOMAIN lobby_players :
            /\ Len(CardsOf(lobby_players[p].hand)) = Len(CardsOf(lobby_players[q].hand))
            /\ Len(CardsOf(lobby_players[p].hand)) \in 1..HandSize

\* C37: whatever the number of clients that run handleJoinLobby at once on a
\* lobby, the lobby never holds more than 10 participants
C37_LobbyAtMostTen == Len(lobby_players) <= MaxLobbyPlayers

\* C38: placeCardInRow and takeRow return a table of as many rows in which
\* every row other than the one at rowIndex holds the same cards in the same
\* order as in the table given, and the table given is after the call as it
\* was before it
C38_OtherRowsAndInputUntouched ==
    probe.op \in {"placeCardInRow", "takeRow"} =>
        /\ Len(probe.newRows) = Len(probe.rows)
        /\ \A r \in DOMAIN probe.rows :
              r # probe.rowIndex + 1 => probe.newRows[r] = probe.rows[r]
        /\ probe.objects.newRows = probe.newRows
        /\ probe.objects.rowsAfter = probe.rows

\* a card was pushed on a row of the table returned, next to a row of two or
\* more cards, and the row of the table given is as before
C38_Witness ==
    /\ probe.op = "placeCardInRow"
    /\ Len(ProbedRow) < RowCapacity
    /\ probe.newRows[probe.rowIndex + 1] = Append(ProbedRow, probe.card)
    /\ probe.objects.rowsAfter[probe.rowIndex + 1] = ProbedRow
    /\ \E r \in DOMAIN probe.rows : r # probe.rowIndex + 1 /\ Len(probe.rows[r]) >= 2

====
